---- MODULE Spec2Model ----
(***************************************************************************)
(* A model of scapy/layers/tuntap.py: the TunTapInterface channel (its     *)
(* constructor, recv_raw, send and the inherited close) and the two        *)
(* packet-info headers it strips and prepends.                             *)
(*                                                                         *)
(* Byte strings are sequences of integers 0..255 (b"tun" is                *)
(* <<116, 117, 110>>).  An optional argument is a sequence of length 0     *)
(* (None) or 1 (the value).  time.time() is not modelled: the timestamp    *)
(* of recv_raw and x.sent_time play no part in any property below.         *)
(***************************************************************************)
EXTENDS Integers, Sequences, FiniteSets, TLC

VARIABLES
    platform,    \* "linux" (LINUX), "bsd" (BSD) or "other": fixed per process
    BIG_ENDIAN,  \* scapy.consts.BIG_ENDIAN: the host's byte order
    obj,         \* per object: the attributes __init__ sets, the request
                 \* it built (tsetiff), the utun unit it connected to and
                 \* the warnings it emitted
    handle,      \* per object: "none", "open" or "closed", the file or
                 \* socket __init__ opened (self.ins and self.outs)
    ctorArgs,    \* per object: the arguments __init__ was called with
    call         \* the last call: arguments, the reads, writes and flushes
                 \* it made on the handle, and its result or exception

vars == <<platform, BIG_ENDIAN, obj, handle, ctorArgs, call>>

(***************************************************************************)
(* Bounds of the model.                                                    *)
(***************************************************************************)
\* recv sizes run over 0..MaxSize; stream payloads have at most MaxSize bytes
MaxSize == 2
\* the longest interface name is LINUX_IFNAMSIZ + ExtraLen bytes
ExtraLen == 4

(***************************************************************************)
(* Program constants.                                                      *)
(***************************************************************************)
LINUX_IFF_TUN == 1
LINUX_IFF_TAP == 2
LINUX_IFF_NO_PI == 4096
LINUX_IFNAMSIZ == 16
AF_INET == 2
AF_INET6 == 30
MTU == 65535
ETH_P_DEFAULT == 36864

Chans == {"a", "b"}

Platforms == {"linux", "bsd", "other"}

(***************************************************************************)
(* Byte-string helpers (Python slicing and startswith).                    *)
(***************************************************************************)
Min(a, b) == IF a < b THEN a ELSE b

\* s[:n]
Take(s, n) == SubSeq(s, 1, Min(n, Len(s)))

\* s[n:]
Drop(s, n) == SubSeq(s, Min(n, Len(s)) + 1, Len(s))

StartsWith(s, p) == Len(s) >= Len(p) /\ SubSeq(s, 1, Len(p)) = p

Zeros(n) == [i \in 1..n |-> 0]

b_tun == <<116, 117, 110>>
b_utun == <<117, 116, 117, 110>>
b_tap == <<116, 97, 112>>

IsLetter(b) == (b >= 65 /\ b <= 90) \/ (b >= 97 /\ b <= 122)
IsDigit(b) == b >= 48 /\ b <= 57

(***************************************************************************)
(* Fixed-size wire structures.                                             *)
(***************************************************************************)
\* Field(name, default, "@H"): a 16-bit scalar in the byte order of the host
NativeShortField(v, bigEndian) ==
    IF bigEndian THEN <<v \div 256, v % 256>> ELSE <<v % 256, v \div 256>>

\* the type written low byte first, as on a little-endian host
XShortFieldHostOrder(v) == <<v % 256, (v \div 256) % 256>>

\* XShortEnumField: a 16-bit scalar, always network byte order
XShortField(v) == <<(v \div 256) % 256, v % 256>>

\* IntField: a 32-bit scalar, network byte order
IntField(v) ==
    <<(v \div 16777216) % 256, (v \div 65536) % 256, (v \div 256) % 256, v % 256>>

\* the value of a big-endian byte string
RECURSIVE FromNetworkOrder(_)
FromNetworkOrder(s) ==
    IF Len(s) = 0 THEN 0
    ELSE 256 * FromNetworkOrder(SubSeq(s, 1, Len(s) - 1)) + s[Len(s)]

\* StrFixedLenField(name, default, n): exactly n bytes, cut or NUL-padded
StrFixedLenField(s, n) == Take(s, n) \o Zeros(n - Len(Take(s, n)))

\* raw(LinuxTunIfReq(ifrn_name=name, ifru_flags=flags))
LinuxTunIfReq(name, flags, bigEndian) ==
    StrFixedLenField(name, LINUX_IFNAMSIZ) \o NativeShortField(flags, bigEndian)

(***************************************************************************)
(* Packets.  A packet is its outermost class and its serialization; the    *)
(* classes are those recv_raw and send tell apart.                         *)
(***************************************************************************)
NoPacket == [cls |-> "None", raw |-> <<>>]

\* The EtherType Ether's layer bindings give a payload class (overloaded
\* into LinuxTunPacketInfo.type through aliastypes = [Ether]); the field's
\* default otherwise.
EtherTypeOf(cls) ==
    IF cls = "IP" THEN 2048
    ELSE IF cls = "IPv6" THEN 34525
    ELSE ETH_P_DEFAULT

\* Ether's payload guess for an EtherType; Raw when nothing is bound to it.
EtherPayloadClass(type) ==
    IF type = 2048 THEN "IP"
    ELSE IF type = 34525 THEN "IPv6"
    ELSE "Raw"

\* raw(LinuxTunPacketInfo() / x): flags 0 in host order, then the type
LinuxTunPacketInfo(x, bigEndian) ==
    NativeShortField(0, bigEndian) \o XShortField(EtherTypeOf(x.cls))

\* raw(MacOSUtunPacketInfo() / x): addr_family keeps its default
MacOSUtunPacketInfo(x) == IntField(AF_INET)

\* raw(IP() / x) starts with the version/IHL byte 0x45; the other 19 header
\* bytes (length, ttl, checksum, addresses) are carried as 0.
IPv4Header(x) == [i \in 1..20 |-> IF i = 1 THEN 69 ELSE 0]

\* raw(Ether() / x): destination, source (carried as 0), then the type
EtherHeader(x) == Zeros(12) \o XShortField(EtherTypeOf(x.cls))

\* the match without its default arm: an unknown family taken for IPv4
UtunGuessFallthrough(hdr) ==
    LET af == IF Len(hdr) = 0 THEN AF_INET ELSE FromNetworkOrder(hdr)
    IN  IF af = AF_INET6 THEN [ok |-> TRUE, cls |-> "IPv6"]
        ELSE [ok |-> TRUE, cls |-> "IP"]

\* MacOSUtunPacketInfo.guess_payload_class on a dissected header; an empty
\* header leaves addr_family at its default
UtunGuessPayloadClass(hdr) ==
    LET af == IF Len(hdr) = 0 THEN AF_INET ELSE FromNetworkOrder(hdr)
    IN  IF af = AF_INET THEN [ok |-> TRUE, cls |-> "IP"]
        ELSE IF af = AF_INET6 THEN [ok |-> TRUE, cls |-> "IPv6"]
        ELSE [ok |-> FALSE, cls |-> "NotImplementedError"]

\* LinuxTunPacketInfo(hdr).guess_payload_class(b''): the type field alone
LinuxTunTypeOf(hdr) ==
    IF Len(hdr) = 0 THEN ETH_P_DEFAULT ELSE FromNetworkOrder(SubSeq(hdr, 3, 4))

LinuxTunGuessPayloadClass(hdr) ==
    [ok |-> TRUE, cls |-> EtherPayloadClass(LinuxTunTypeOf(hdr))]

\* r[0](r[1][:self.mtu_overhead]).guess_payload_class(b'')
GuessPayloadClass(kpc, hdr) ==
    IF kpc = "MacOSUtunPacketInfo" THEN UtunGuessPayloadClass(hdr)
    ELSE LinuxTunGuessPayloadClass(hdr)


(***************************************************************************)
(* The constructor, TunTapInterface.__init__.                              *)
(***************************************************************************)
\* conf.iface, the ambient default interface name (b"eth0")
conf_iface == <<101, 116, 104, 48>>

\* an object on which __init__ has not run
NewObj ==
    [phase |-> "new", exc |-> "None", iface |-> <<>>, mode_tun |-> "None",
     strip_packet_info |-> FALSE, mtu_overhead |-> 0,
     kernel_packet_class |-> "None", default_read_size |-> 0,
     closed |-> FALSE, tsetiff |-> <<>>, unit |-> <<>>, warnings |-> <<>>]

NoArgs == [iface |-> <<>>, mode_tun |-> "None", strip_packet_info |-> FALSE]

\* detection that falls back to Tap instead of failing
DetectModeDefaultTap(iface, mode_tun) ==
    IF mode_tun # "None" THEN mode_tun
    ELSE IF StartsWith(iface, b_tun) \/ StartsWith(iface, b_utun) THEN "True"
    ELSE "False"

\* mode_tun as given, or detected from the name; "None" when neither works
DetectMode(iface, mode_tun) ==
    IF mode_tun # "None" THEN mode_tun
    ELSE IF StartsWith(iface, b_tun) \/ StartsWith(iface, b_utun) THEN "True"
    ELSE IF StartsWith(iface, b_tap) THEN "False"
    ELSE "None"

\* self.kernel_packet_class = IPv46 if self.mode_tun else Ether
DefaultPacketClass(mode_tun) == IF mode_tun = "True" THEN "IPv46" ELSE "Ether"

\* Linux: tun devices carry LinuxTunPacketInfo, tap devices nothing
LinuxPacketClass(mode_tun) ==
    IF mode_tun = "True" THEN "LinuxTunPacketInfo" ELSE "Ether"

\* the overhead counting the type field only
LinuxOverheadTypeOnly(mode_tun) == IF mode_tun = "True" THEN 2 ELSE 0

LinuxOverhead(mode_tun) == IF mode_tun = "True" THEN 4 ELSE 0

\* Linux tap forces stripping
LinuxStrip(mode_tun, strip) == IF mode_tun = "True" THEN strip ELSE TRUE

\* truncation that leaves room for a terminating NUL
LinuxTruncateOffByOne(iface) ==
    IF Len(iface) > LINUX_IFNAMSIZ THEN Take(iface, LINUX_IFNAMSIZ - 1) ELSE iface

LinuxTruncate(iface) ==
    IF Len(iface) > LINUX_IFNAMSIZ THEN Take(iface, LINUX_IFNAMSIZ) ELSE iface

\* the warnings of the Linux branch, in the order they are emitted
LinuxWarnings(iface, mode_tun) ==
    (IF mode_tun = "True" THEN <<>> ELSE <<"tap_no_packet_info">>)
    \o (IF Len(iface) > LINUX_IFNAMSIZ THEN <<"ifnamsiz_truncating">> ELSE <<>>)

LinuxFlags(mode_tun) ==
    IF mode_tun = "True" THEN LINUX_IFF_TUN
    ELSE LINUX_IFF_TAP + LINUX_IFF_NO_PI

\* re.match(r"([a-z]+)([0-9]+)", name, re.I): the number after the leading
\* letters, or no match
RECURSIVE LetterRun(_, _)
LetterRun(s, i) ==
    IF i <= Len(s) /\ IsLetter(s[i]) THEN LetterRun(s, i + 1) ELSE i - 1

RECURSIVE DigitRun(_, _)
DigitRun(s, i) ==
    IF i <= Len(s) /\ IsDigit(s[i]) THEN DigitRun(s, i + 1) ELSE i - 1

RECURSIVE DecimalValue(_)
DecimalValue(s) ==
    IF Len(s) = 0 THEN 0
    ELSE 10 * DecimalValue(SubSeq(s, 1, Len(s) - 1)) + (s[Len(s)] - 48)

InterfaceNum(name) ==
    LET k == LetterRun(name, 1)
        d == DigitRun(name, k + 1)
    IN  IF k >= 1 /\ d > k THEN <<DecimalValue(SubSeq(name, k + 1, d))>>
        ELSE <<>>

\* the object and its OS handle when __init__ raises exc
Raised(o, exc, h) == [obj |-> [o EXCEPT !.phase = "failed", !.exc = exc], handle |-> h]

\* self.closed = False ... super().__init__(sock)
Opened(o, size) ==
    [obj |-> [o EXCEPT !.phase = "built", !.closed = FALSE,
                       !.default_read_size = size],
     handle |-> "open"]

\* if LINUX: ... ioctl(sock, LINUX_TUNSETIFF, tsetiff)
InitLinux(o, size, fail, bigEndian) ==
    LET m  == o.mode_tun
        nm == LinuxTruncate(o.iface)
        o1 == [o EXCEPT !.kernel_packet_class = LinuxPacketClass(m),
                        !.mtu_overhead = LinuxOverhead(m),
                        !.strip_packet_info = LinuxStrip(m, o.strip_packet_info),
                        !.warnings = LinuxWarnings(o.iface, m),
                        !.iface = nm,
                        !.tsetiff = LinuxTunIfReq(nm, LinuxFlags(m), bigEndian)]
    IN  IF fail = "open" THEN Raised(o1, "OSError", "none")
        ELSE IF fail = "ioctl" THEN Raised(o1, "OSError", "open")
        ELSE Opened(o1, size)

\* elif BSD: ...
InitBSD(o, size, fail) ==
    IF ~(StartsWith(o.iface, b_tap) \/ StartsWith(o.iface, b_tun)
         \/ StartsWith(o.iface, b_utun))
    THEN Raised(o, "ValueError", "none")
    ELSE IF StartsWith(o.iface, b_utun)
    THEN LET num == InterfaceNum(o.iface)
             o1  == [o EXCEPT !.kernel_packet_class = "MacOSUtunPacketInfo",
                              !.mtu_overhead = 4]
         IN  IF fail = "open" THEN Raised(o1, "OSError", "none")
             ELSE IF fail = "ioctl" THEN Raised(o1, "OSError", "open")
             ELSE IF num = <<>> THEN Raised(o1, "UnboundLocalError", "open")
             ELSE IF fail = "connect"
             THEN Raised([o1 EXCEPT !.unit = <<num[1] + 1>>], "OSError", "open")
             ELSE Opened([o1 EXCEPT !.unit = <<num[1] + 1>>], size)
    ELSE IF fail = "open" THEN Raised(o, "OSError", "none")
    ELSE Opened(o, size)

\* TunTapInterface.__init__(iface, mode_tun, default_read_size,
\* strip_packet_info); fail names the system call that fails, if any
TunTapInterface(plat, bigEndian, a, size, fail) ==
    LET iface == IF a.iface = <<>> THEN conf_iface ELSE a.iface[1]
        m     == DetectMode(iface, a.mode_tun)
        o0    == [NewObj EXCEPT !.iface = iface, !.mode_tun = m]
        o1    == [o0 EXCEPT !.strip_packet_info = a.strip_packet_info,
                            !.mtu_overhead = 0,
                            !.kernel_packet_class = DefaultPacketClass(m)]
    IN  IF m = "None" THEN Raised(o0, "ValueError", "none")
        ELSE IF plat = "linux" THEN InitLinux(o1, size, fail, bigEndian)
        ELSE IF plat = "bsd" THEN InitBSD(o1, size, fail)
        ELSE Raised(o1, "NotImplementedError", "none")


(***************************************************************************)
(* recv_raw, send and close.  Each yields the record of the call: what it  *)
(* was given, what it did to the handle and how it ended.                  *)
(***************************************************************************)
NoCall ==
    [op |-> "none", chan |-> "a", arg |-> NoPacket, xarg |-> <<>>,
     dat |-> <<>>, ioerr |-> "none", outcome |-> "return", exc |-> "None",
     cls |-> "None", data |-> <<>>, count |-> <<>>, reads |-> <<>>,
     writes |-> <<>>, flushes |-> 0, logged |-> 0, echo |-> NoPacket]

\* the read length without the header added
ReadSizeNoOverhead(o, xarg) ==
    IF xarg = <<>> THEN o.default_read_size ELSE xarg[1]

\* the length recv_raw asks the handle for
ReadSize(o, xarg) ==
    (IF xarg = <<>> THEN o.default_read_size ELSE xarg[1]) + o.mtu_overhead

\* whether recv_raw takes the header off
Strips(o) == o.mtu_overhead > 0 /\ o.strip_packet_info

\* r[1][self.mtu_overhead:]
StripHeader(o, dat) == Drop(dat, o.mtu_overhead)

\* recv_raw(x) on object o with handle h, the device delivering dat; a
\* closed file object refuses the read with ValueError
recv_raw(c, o, h, xarg, dat) ==
    LET base == [NoCall EXCEPT !.op = "recv_raw", !.chan = c, !.xarg = xarg]
        got  == [base EXCEPT !.reads = <<ReadSize(o, xarg)>>, !.dat = dat]
        g    == GuessPayloadClass(o.kernel_packet_class,
                                  Take(dat, o.mtu_overhead))
    IN  IF h # "open"
        THEN [base EXCEPT !.outcome = "raise", !.exc = "ValueError"]
        ELSE IF Strips(o)
        THEN IF g.ok
             THEN [got EXCEPT !.cls = g.cls, !.data = StripHeader(o, dat)]
             ELSE [got EXCEPT !.outcome = "raise", !.exc = g.cls]
        ELSE [got EXCEPT !.cls = o.kernel_packet_class, !.data = dat]

\* the header send puts before a packet that is not of the expected class
HeaderFor(kpc, x, bigEndian) ==
    IF kpc = "LinuxTunPacketInfo" THEN LinuxTunPacketInfo(x, bigEndian)
    ELSE IF kpc = "MacOSUtunPacketInfo" THEN MacOSUtunPacketInfo(x)
    ELSE EtherHeader(x)

\* wrapping without the IPv46 case
WrapForSendNoIPv46(kpc, x, bigEndian) ==
    IF x.cls # kpc
    THEN [cls |-> kpc, raw |-> HeaderFor(kpc, x, bigEndian) \o x.raw]
    ELSE x

\* the packet send serializes
WrapForSend(kpc, x, bigEndian) ==
    IF kpc = "IPv46"
    THEN IF x.cls \in {"IP", "IPv6"} THEN x
         ELSE [cls |-> "IP", raw |-> IPv4Header(x) \o x.raw]
    ELSE IF x.cls # kpc
    THEN [cls |-> kpc, raw |-> HeaderFor(kpc, x, bigEndian) \o x.raw]
    ELSE x

\* except Exception
SendCatchesAny(exc) == TRUE

\* except ValueError
SendCatchesValueError(exc) == exc = "ValueError"

\* except socket.error
SendCatches(exc) == exc = "OSError"

\* send(x) on object o with handle h; ioerr names the transport failure of
\* this call ("write", "flush") or "none"; a closed file object refuses
\* the write with ValueError
send(c, o, h, x, ioerr, bigEndian) ==
    LET base == [NoCall EXCEPT !.op = "send", !.chan = c, !.arg = x]
        sx   == WrapForSend(o.kernel_packet_class, x, bigEndian).raw
        exc  == IF h # "open" THEN "ValueError"
                ELSE IF ioerr # "none" THEN "OSError"
                ELSE "None"
        io   == IF h # "open" THEN base
                ELSE [base EXCEPT !.ioerr = ioerr, !.writes = <<sx>>,
                                  !.flushes = IF ioerr = "write" THEN 0 ELSE 1]
    IN  IF exc = "None" THEN [io EXCEPT !.count = <<Len(sx)>>]
        ELSE IF SendCatches(exc) THEN [io EXCEPT !.logged = 1]
        ELSE [io EXCEPT !.outcome = "raise", !.exc = exc]

\* SuperSocket.close(): closes the handle once
close(o, h) ==
    IF o.closed THEN [obj |-> o, handle |-> h]
    ELSE [obj |-> [o EXCEPT !.closed = TRUE], handle |-> "closed"]

(***************************************************************************)
(* Inputs.                                                                 *)
(***************************************************************************)
\* a name of n bytes: the prefix, then the digits 0, 1, 2, ...
LongName(prefix, n) ==
    [i \in 1..n |-> IF i <= Len(prefix) THEN prefix[i] ELSE 48 + (i % 10)]

Names ==
    {b_tun \o <<48>>, b_tap \o <<51>>, b_utun \o <<49>>, b_utun,
     <<101, 116, 104, 48>>}
    \cup {LongName(b_tun, LINUX_IFNAMSIZ + k) : k \in {0, 1, ExtraLen}}
    \cup {LongName(b_tap, LINUX_IFNAMSIZ + ExtraLen)}

IfaceArgs == {<<>>} \cup {<<n>> : n \in Names}
Modes == {"None", "True", "False"}
Fails == {"none", "open", "ioctl", "connect"}

CtorArgs == [iface : IfaceArgs, mode_tun : Modes, strip_packet_info : BOOLEAN]

\* a tun, a utun and a tap name, the mode detected or given as Tun,
\* header stripping on
FewCtorArgs ==
    [iface : {<<b_tun \o <<48>>>>, <<b_utun \o <<49>>>>, <<b_tap \o <<51>>>>},
     mode_tun : {"None", "True"}, strip_packet_info : {TRUE}]

RECURSIVE Repeat(_, _)
Repeat(b, n) == IF n = 0 THEN <<>> ELSE <<b>> \o Repeat(b, n - 1)

Payloads == {Repeat(7, n) : n \in 0..MaxSize}

Headers ==
    {<<0, 0, 8, 0>>, <<0, 0, 134, 221>>, <<0, 0, 144, 0>>,
     <<0, 0, 0, 2>>, <<0, 0, 0, 30>>, <<2, 0, 0, 0>>}

\* what the device may hand to a read of n bytes: nothing (end of stream),
\* or one frame of at most n bytes, which on a device with packet info
\* starts with the whole 4-byte header
Supplied(o, n, headers, payloads) ==
    IF o.mtu_overhead > 0
    THEN {<<>>} \cup {f \in {h \o p : h \in headers, p \in payloads} : Len(f) <= n}
    ELSE {p \in payloads : Len(p) <= n}

SizeArgs == {<<>>} \cup {<<n>> : n \in 0..MaxSize}

IPPacket == [cls |-> "IP", raw |-> IPv4Header(NoPacket)]
IPv6Packet == [cls |-> "IPv6", raw |-> [i \in 1..40 |-> IF i = 1 THEN 96 ELSE 0]]

Packets ==
    {[cls |-> "Raw", raw |-> p] : p \in Payloads \ {<<>>}}
    \cup {IPPacket, IPv6Packet,
          [cls |-> "LinuxTunPacketInfo", raw |-> <<0, 0, 134, 221>> \o IPv6Packet.raw],
          [cls |-> "MacOSUtunPacketInfo", raw |-> <<0, 0, 0, 30>> \o IPv6Packet.raw],
          [cls |-> "Ether", raw |-> EtherHeader(IPPacket) \o IPPacket.raw]}

FewPackets == {[cls |-> "Raw", raw |-> <<7>>], IPv6Packet}

IoErrs == {"none", "write", "flush"}

(***************************************************************************)
(* The state machine.                                                      *)
(***************************************************************************)
Init ==
    /\ platform \in Platforms
    /\ BIG_ENDIAN \in BOOLEAN
    /\ obj = [c \in Chans |-> NewObj]
    /\ handle = [c \in Chans |-> "none"]
    /\ ctorArgs = [c \in Chans |-> NoArgs]
    /\ call = NoCall

Construct(c, args) ==
    /\ obj[c].phase = "new"
    /\ \E a \in args, fail \in Fails :
         LET r == TunTapInterface(platform, BIG_ENDIAN, a, MTU, fail)
         IN  /\ obj' = [obj EXCEPT ![c] = r.obj]
             /\ handle' = [handle EXCEPT ![c] = r.handle]
             /\ ctorArgs' = [ctorArgs EXCEPT ![c] = a]
             /\ call' = [NoCall EXCEPT !.op = "init", !.chan = c,
                           !.outcome = IF r.obj.phase = "failed" THEN "raise"
                                       ELSE "return",
                           !.exc = r.obj.exc]
    /\ UNCHANGED <<platform, BIG_ENDIAN>>

RecvRaw(c, headers, payloads) ==
    /\ obj[c].phase = "built"
    /\ \E xarg \in SizeArgs :
         \E dat \in Supplied(obj[c], ReadSize(obj[c], xarg), headers, payloads) :
            call' = recv_raw(c, obj[c], handle[c], xarg, dat)
    /\ UNCHANGED <<platform, BIG_ENDIAN, obj, handle, ctorArgs>>

\* recv_raw() reading back the frame the send before it wrote
RecvEcho(c) ==
    /\ obj[c].phase = "built"
    /\ call.op = "send" /\ call.chan = c /\ call.count # <<>>
    /\ call' = [recv_raw(c, obj[c], handle[c], <<>>, call.writes[1])
                  EXCEPT !.echo = call.arg]
    /\ UNCHANGED <<platform, BIG_ENDIAN, obj, handle, ctorArgs>>

Send(c, packets) ==
    /\ obj[c].phase = "built"
    /\ \E x \in packets, ioerr \in IoErrs :
         call' = send(c, obj[c], handle[c], x, ioerr, BIG_ENDIAN)
    /\ UNCHANGED <<platform, BIG_ENDIAN, obj, handle, ctorArgs>>

Close(c) ==
    /\ obj[c].phase = "built"
    /\ LET r == close(obj[c], handle[c])
       IN  /\ obj' = [obj EXCEPT ![c] = r.obj]
           /\ handle' = [handle EXCEPT ![c] = r.handle]
    /\ call' = [NoCall EXCEPT !.op = "close", !.chan = c]
    /\ UNCHANGED <<platform, BIG_ENDIAN, ctorArgs>>

\* one channel, every input
Next ==
    \/ Construct("a", CtorArgs)
    \/ RecvRaw("a", Headers, Payloads)
    \/ RecvEcho("a")
    \/ Send("a", Packets)
    \/ Close("a")

Spec == Init /\ [][Next]_vars

\* two channels of one process, fewer inputs
PairNext ==
    \E c \in Chans :
        \/ Construct(c, FewCtorArgs)
        \/ RecvRaw(c, {<<0, 0, 0, 2>>}, {<<7>>})
        \/ Send(c, FewPackets)
        \/ Close(c)

PairSpec == Init /\ [][PairNext]_vars


(***************************************************************************)
(* Properties.                                                             *)
(***************************************************************************)
Built(c) == obj[c].phase = "built"

\* the name __init__ was given for channel c
GivenName(c) ==
    IF ctorArgs[c].iface = <<>> THEN conf_iface ELSE ctorArgs[c].iface[1]

\* the last call was op on channel c
Called(c, op) == call.op = op /\ call.chan = c

\* C1: once close() has run, every recv_raw and send on the channel ends
\* in an exception, without a read or a write on the handle and without a
\* result.
C1_FailsAfterClose ==
    \A c \in Chans :
        (obj[c].closed /\ (Called(c, "recv_raw") \/ Called(c, "send")))
            => /\ call.outcome = "raise"
               /\ call.reads = <<>> /\ call.writes = <<>> /\ call.flushes = 0
               /\ call.cls = "None" /\ call.data = <<>> /\ call.count = <<>>

C1_Witness ==
    obj["a"].closed /\ Called("a", "send") /\ call.outcome = "raise"

\* C2: a constructor that raised holds no open OS handle.
C2_NoHandleLeftOpen ==
    \A c \in Chans : obj[c].phase = "failed" => handle[c] # "open"

IsUtunName(c) == SubSeq(obj[c].iface, 1, 4) = <<117, 116, 117, 110>>

\* the overhead __init__ gave channel c
OverheadAtOpen(c) ==
    TunTapInterface(platform, BIG_ENDIAN, ctorArgs[c], MTU, "none").obj.mtu_overhead

\* C3 as stated: two open channels of one platform and one mode have the
\* same overhead, which is 0 or 4 and is still what __init__ set.
C3_FunctionOfPlatformAndMode ==
    \A c \in Chans, d \in Chans :
        (Built(c) /\ Built(d) /\ obj[c].mode_tun = obj[d].mode_tun)
            => /\ obj[c].mtu_overhead = obj[d].mtu_overhead
               /\ obj[c].mtu_overhead \in {0, 4}
               /\ obj[c].mtu_overhead = OverheadAtOpen(c)

\* C3 as amended: the overhead is decided by the platform, the mode and
\* whether the name starts with "utun"; it is 0 or 4 and is still what
\* __init__ set after any recv_raw, send and close.
C3_FunctionOfPlatformModeAndUtun ==
    \A c \in Chans, d \in Chans :
        (Built(c) /\ Built(d) /\ obj[c].mode_tun = obj[d].mode_tun
           /\ (IsUtunName(c) <=> IsUtunName(d)))
            => /\ obj[c].mtu_overhead = obj[d].mtu_overhead
               /\ obj[c].mtu_overhead \in {0, 4}
               /\ obj[c].mtu_overhead = OverheadAtOpen(c)

C3_Witness ==
    /\ Built("a") /\ Built("b")
    /\ obj["a"].mode_tun = obj["b"].mode_tun
    /\ obj["a"].iface # obj["b"].iface
    /\ (IsUtunName("a") <=> IsUtunName("b"))
    /\ obj["a"].mtu_overhead = 4
    /\ call.op \in {"recv_raw", "send"}

\* the size a recv_raw call asked for
Requested(c) ==
    IF call.xarg = <<>> THEN obj[c].default_read_size ELSE call.xarg[1]

\* a recv_raw on an open channel that strips a 4-byte header
StrippedRecv(c) ==
    /\ Called(c, "recv_raw") /\ Built(c) /\ ~obj[c].closed
    /\ obj[c].mtu_overhead = 4 /\ obj[c].strip_packet_info

\* the first four bytes of what was read, as a big-endian number
HeaderWord ==
    ((call.dat[1] * 256 + call.dat[2]) * 256 + call.dat[3]) * 256 + call.dat[4]

\* C4 as stated: recv of N bytes on a stripping channel with overhead 4
\* does one read of N+4 bytes and, given N+4 bytes, returns the N bytes
\* after the header.
C4_ReadsAndStrips ==
    \A c \in Chans :
        StrippedRecv(c)
            => /\ call.reads = <<Requested(c) + 4>>
               /\ Len(call.dat) = Requested(c) + 4
                    => /\ call.outcome = "return"
                       /\ Len(call.data) = Requested(c)
                       /\ call.data = SubSeq(call.dat, 5, Len(call.dat))

\* C4 as amended: the same, except that on a utun channel a header whose
\* address family is neither IPv4 nor IPv6 makes recv raise after its one
\* read, returning nothing.
C4_ReadsAndStripsUnlessBadFamily ==
    \A c \in Chans :
        StrippedRecv(c)
            => /\ call.reads = <<Requested(c) + 4>>
               /\ Len(call.dat) = Requested(c) + 4
                    => IF obj[c].kernel_packet_class = "MacOSUtunPacketInfo"
                          /\ HeaderWord \notin {AF_INET, AF_INET6}
                       THEN /\ call.outcome = "raise"
                            /\ call.exc = "NotImplementedError"
                            /\ call.data = <<>>
                       ELSE /\ call.outcome = "return"
                            /\ Len(call.data) = Requested(c)
                            /\ call.data = SubSeq(call.dat, 5, Len(call.dat))

C4_Witness ==
    /\ StrippedRecv("a")
    /\ Requested("a") = MaxSize /\ Len(call.dat) = MaxSize + 4
    /\ call.outcome = "return" /\ Len(call.data) = MaxSize

\* a Linux constructor that got as far as the name
LinuxNamed(c) ==
    platform = "linux" /\ obj[c].phase # "new" /\ obj[c].mode_tun # "None"

First16(name) == [i \in 1..16 |-> name[i]]

Padded16(name) == [i \in 1..16 |-> IF i <= Len(name) THEN name[i] ELSE 0]

CountOf(w, ws) == Cardinality({i \in 1..Len(ws) : ws[i] = w})

\* C5 as stated: on Linux a name over 16 bytes becomes its first 16 bytes
\* and the open emits exactly one warning; a shorter name is kept and is
\* NUL-padded to 16 bytes in the request.
C5_TruncatesWithOneWarning ==
    \A c \in Chans :
        LinuxNamed(c)
            => IF Len(GivenName(c)) > 16
               THEN /\ obj[c].iface = First16(GivenName(c))
                    /\ Len(obj[c].warnings) = 1
               ELSE /\ obj[c].iface = GivenName(c)
                    /\ SubSeq(obj[c].tsetiff, 1, 16) = Padded16(GivenName(c))

\* C5 as amended: exactly one truncation warning; it is the open's only
\* warning in Tun mode, and in Tap mode the tap warning comes before it.
C5_TruncatesWithOneTruncationWarning ==
    \A c \in Chans :
        LinuxNamed(c)
            => IF Len(GivenName(c)) > 16
               THEN /\ obj[c].iface = First16(GivenName(c))
                    /\ SubSeq(obj[c].tsetiff, 1, 16) = First16(GivenName(c))
                    /\ CountOf("ifnamsiz_truncating", obj[c].warnings) = 1
                    /\ obj[c].warnings =
                         IF obj[c].mode_tun = "True"
                         THEN <<"ifnamsiz_truncating">>
                         ELSE <<"tap_no_packet_info", "ifnamsiz_truncating">>
               ELSE /\ obj[c].iface = GivenName(c)
                    /\ SubSeq(obj[c].tsetiff, 1, 16) = Padded16(GivenName(c))
                    /\ CountOf("ifnamsiz_truncating", obj[c].warnings) = 0

C5_Witness ==
    /\ LinuxNamed("a") /\ Built("a")
    /\ Len(GivenName("a")) = LINUX_IFNAMSIZ + ExtraLen
    /\ Len(obj["a"].iface) = 16
    /\ obj["a"].mode_tun = "False"

\* C6: a send whose write or flush fails returns without an exception
\* after one write and one log entry, leaves the object and its handle as
\* they were, and the next send or recv_raw on the channel works.
C6_WriteFailureIsContained ==
    /\ [][(call' # call /\ call'.op = "send" /\ call'.ioerr # "none")
            => /\ call'.outcome = "return" /\ call'.exc = "None"
               /\ call'.count = <<>>
               /\ Len(call'.writes) = 1 /\ call'.logged = 1
               /\ obj' = obj /\ handle' = handle]_vars
    /\ [][(call.op = "send" /\ call.ioerr # "none" /\ call' # call
             /\ call'.chan = call.chan /\ call'.ioerr = "none")
            => /\ call'.op = "send"
                    => /\ call'.outcome = "return"
                       /\ call'.count = <<Len(call'.writes[1])>>
                       /\ call'.flushes = 1
               /\ call'.op = "recv_raw" => Len(call'.reads) = 1]_vars

C6_Witness ==
    /\ Called("a", "send") /\ call.ioerr = "flush"
    /\ call.outcome = "return" /\ call.logged = 1
    /\ handle["a"] = "open"

\* C7: on a stripping utun channel the class recv_raw returns is decided
\* by the 4-byte header: family 2 gives IP, family 30 gives IPv6, any
\* other value makes recv_raw raise NotImplementedError.
C7_UtunFamilyDecides ==
    \A c \in Chans :
        (StrippedRecv(c) /\ obj[c].kernel_packet_class = "MacOSUtunPacketInfo"
           /\ Len(call.dat) >= 4)
            => IF HeaderWord = 2
               THEN call.outcome = "return" /\ call.cls = "IP"
               ELSE IF HeaderWord = 30
               THEN call.outcome = "return" /\ call.cls = "IPv6"
               ELSE /\ call.outcome = "raise"
                    /\ call.exc = "NotImplementedError"
                    /\ call.cls = "None" /\ call.data = <<>>

C7_Witness ==
    /\ StrippedRecv("a")
    /\ obj["a"].kernel_packet_class = "MacOSUtunPacketInfo"
    /\ Len(call.dat) > 4
    /\ call.exc = "NotImplementedError"

\* C8: a bare payload that send wrapped in the Tun header and recv_raw
\* read back stripped comes out with its own bytes and with the class the
\* header names.
C8_AttachThenStrip ==
    \A c \in Chans :
        (StrippedRecv(c) /\ obj[c].mode_tun = "True"
           /\ call.echo # NoPacket
           /\ call.echo.cls # obj[c].kernel_packet_class)
            => /\ call.outcome = "return"
               /\ call.data = call.echo.raw
               /\ call.cls =
                    IF obj[c].kernel_packet_class = "MacOSUtunPacketInfo"
                    THEN "IP"
                    ELSE IF call.echo.cls \in {"IP", "IPv6"}
                    THEN call.echo.cls
                    ELSE "Raw"

C8_Witness ==
    /\ StrippedRecv("a") /\ obj["a"].mode_tun = "True"
    /\ obj["a"].kernel_packet_class = "LinuxTunPacketInfo"
    /\ call.echo.cls = "IPv6" /\ call.cls = "IPv6"
    /\ call.data = call.echo.raw

\* C9: with no mode given, a name starting with "tun" or "utun" gives
\* Tun, one starting with "tap" gives Tap, and any other name makes the
\* constructor raise ValueError with nothing opened; a given mode is kept.
C9_ModeFromPrefix ==
    \A c \in Chans :
        obj[c].phase # "new"
            => LET n == GivenName(c)
               IN  IF ctorArgs[c].mode_tun # "None"
                   THEN obj[c].mode_tun = ctorArgs[c].mode_tun
                   ELSE IF SubSeq(n, 1, 3) = <<116, 117, 110>>
                           \/ SubSeq(n, 1, 4) = <<117, 116, 117, 110>>
                   THEN obj[c].mode_tun = "True"
                   ELSE IF SubSeq(n, 1, 3) = <<116, 97, 112>>
                   THEN obj[c].mode_tun = "False"
                   ELSE /\ obj[c].phase = "failed"
                        /\ obj[c].exc = "ValueError"
                        /\ handle[c] = "none"
                        /\ obj[c].tsetiff = <<>> /\ obj[c].warnings = <<>>

C9_Witness ==
    /\ obj["a"].phase = "failed" /\ obj["a"].exc = "ValueError"
    /\ ctorArgs["a"].mode_tun = "None"
    /\ GivenName("a") = <<101, 116, 104, 48>>
    /\ platform = "linux"

\* C10: on a channel whose packet class is IPv46, send writes an IP or
\* IPv6 packet as it is and any other packet behind an IPv4 header (first
\* byte 0x45), in one write of the whole frame followed by one flush.
C10_WrapsAsIPv4 ==
    \A c \in Chans :
        (Called(c, "send") /\ Built(c) /\ ~obj[c].closed
           /\ obj[c].kernel_packet_class = "IPv46")
            => /\ Len(call.writes) = 1
               /\ LET w == call.writes[1]
                  IN  IF call.arg.cls \in {"IP", "IPv6"}
                      THEN w = call.arg.raw
                      ELSE /\ Len(w) = 20 + Len(call.arg.raw)
                           /\ w[1] = 69
                           /\ SubSeq(w, 21, Len(w)) = call.arg.raw
               /\ call.ioerr # "write" => call.flushes = 1
               /\ call.ioerr = "none"
                    => call.outcome = "return"
                       /\ call.count = <<Len(call.writes[1])>>

C10_Witness ==
    /\ Called("a", "send") /\ obj["a"].kernel_packet_class = "IPv46"
    /\ call.arg.cls = "Raw" /\ call.ioerr = "none"
    /\ call.writes[1][1] = 69 /\ call.flushes = 1


====
